---- MODULE Spec2Model ----
(***************************************************************************)
(* Model of useDelegation(controller): the function-based event delegation *)
(* registry of stimulus-delegation 1.1.0.                                  *)
(*                                                                         *)
(* One controller owns one root element.  The registry is the Map          *)
(* delegatedEvents (key -> physical listener); the root element keeps its  *)
(* own event listener list.  The model keeps both, so that a listener that *)
(* is attached but no longer tracked (or the reverse) is a visible state.  *)
(*                                                                         *)
(* Strings are sequences of tokens in which ":" is a token of its own and  *)
(* no other token contains ":"; two strings are equal exactly when their   *)
(* token sequences are equal, and string concatenation is \o.              *)
(***************************************************************************)
EXTENDS Naturals, Sequences, FiniteSets

\* ------------------------------------------------------------- bounds
\* Number of delegate calls in one behaviour (each creates one closure).
MaxListeners == 3

\* ------------------------------------------------------------- inputs
Null == "null"
Controller == "controller"

\* The (eventType, selector) pairs the controller works with.  An event type
\* may contain ':' (the tests use 'custom:event') and so may a selector (a
\* pseudo-class).  The first two pairs differ in both parts; the last two
\* share their event type.
Pairs == { << <<"ui", ":", "input">>, <<"checked">> >>,
           << <<"ui">>, <<"input", ":", "checked">> >>,
           << <<"ui">>, <<"checked">> >> }

EventTypes == { p[1] : p \in Pairs }
Selectors == { p[2] : p \in Pairs }

Handlers == { "h1", "h2" }

\* ------------------------------------------------------------- the DOM
\*   body -+- root --- card --- btn -+- span
\*         |                        +- txt   (text node)
\*         +- ext
\*   orphan  (text node without parent)
\* btn can be moved (with its subtree) below ext, and back.
Nodes == { "body", "root", "card", "btn", "span", "txt", "ext", "orphan" }
TextNodes == { "txt", "orphan" }
Root == "root"

InitialParent ==
  [n \in Nodes |->
     CASE n = "root" -> "body"
       [] n = "ext"  -> "body"
       [] n = "card" -> "root"
       [] n = "btn"  -> "card"
       [] n = "span" -> "btn"
       [] n = "txt"  -> "btn"
       [] OTHER      -> Null]

Movable == { "btn" }
MoveTargets == { "card", "ext" }

\* Node.nodeType === Node.ELEMENT_NODE
IsElement(n) == n \in Nodes \ TextNodes

\* The selector engine (Element.matches): which elements satisfy which selector.
Matches(n, selector) ==
  CASE selector = <<"checked">>                 -> n \in { "btn", "card", "body", "ext" }
    [] selector = <<"input", ":", "checked">>   -> n \in { "span", "root", "ext" }
    [] OTHER                                    -> FALSE

\* Node.parentElement
ParentElement(par, n) ==
  IF par[n] # Null /\ IsElement(par[n]) THEN par[n] ELSE Null

\* Element.closest(selector): nearest ancestor-or-self matching, or null.
RECURSIVE Closest(_, _, _)
Closest(par, n, selector) ==
  IF n = Null THEN Null
  ELSE IF Matches(n, selector) THEN n
  ELSE Closest(par, ParentElement(par, n), selector)

\* Node.contains(other): other is the node itself or one of its descendants.
RECURSIVE Contains(_, _, _)
Contains(par, n, other) ==
  IF other = Null THEN FALSE
  ELSE IF other = n THEN TRUE
  ELSE Contains(par, n, par[other])

\* The nodes an event dispatched at `at` visits while bubbling.
RECURSIVE EventPath(_, _)
EventPath(par, at) ==
  IF at = Null THEN {} ELSE { at } \cup EventPath(par, par[at])


\* ------------------------------------------------------------- the key
\* A key with the selector before the event type.
KeySelectorFirst(eventType, selector) == selector \o <<":">> \o eventType

\* `${eventType}:${selector}`
Key(eventType, selector) == eventType \o <<":">> \o selector

\* const [eventType] = key.split(':')  -- the part before the first ':'
RECURSIVE FirstSegment(_)
FirstSegment(key) ==
  IF key = <<>> \/ Head(key) = ":" THEN <<>>
  ELSE <<Head(key)>> \o FirstSegment(Tail(key))

\* ------------------------------------------------------------- state
VARIABLES
  delegatedEvents,   \* controller.delegatedEvents: Map key -> listener
  listeners,         \* the root element's event listener list, in attach order
  parent,            \* the DOM tree: node -> parent node or Null
  nextId,            \* identity of the next closure delegate creates
  lastOp,            \* the controller operation that ran last, with its arguments
  effects,           \* the calls that operation made on its collaborators
  returned,          \* what that operation returned
  lastEvent,           \* the event dispatched last since then, or NoEvent
  calls,             \* the handler invocations that dispatch made, in order
  thrown,            \* the errors that left the listeners during that dispatch
  flights            \* the begins and ends of the runs of the root's listeners
                     \* that dispatch caused, in order

vars == << delegatedEvents, listeners, parent, nextId, lastOp, effects,
           returned, lastEvent, calls, thrown, flights >>

NoArg == <<>>
NoEvent == [type |-> NoArg, at |-> Null, target |-> Null]

\* No closure: what Map.get answers for a key the map does not have.
NoClosure == [id |-> 0, eventType |-> NoArg, selector |-> NoArg, handler |-> Null]

\* `found`: what the map held under the operation's key when it was called.
Op(name, eventType, selector, handler, found) ==
  [name |-> name, eventType |-> eventType, selector |-> selector,
   handler |-> handler, found |-> found]

\* A JavaScript Map: its entries in insertion order.
EmptyMap == <<>>

MapKeys(map) == { map[i].key : i \in 1..Len(map) }

\* Map.prototype.has
MapHas(map, key) == key \in MapKeys(map)

\* Map.prototype.get
MapGet(map, key) ==
  IF MapHas(map, key)
  THEN map[CHOOSE i \in 1..Len(map) : map[i].key = key].value
  ELSE NoClosure

\* A set that leaves the value of a key the map already has.
MapSetKeepsExisting(map, key, value) ==
  IF MapHas(map, key) THEN map ELSE Append(map, [key |-> key, value |-> value])

\* Map.prototype.set: a key the map has keeps its position.
MapSet(map, key, value) ==
  IF MapHas(map, key)
  THEN [i \in 1..Len(map) |->
          IF map[i].key = key THEN [key |-> key, value |-> value] ELSE map[i]]
  ELSE Append(map, [key |-> key, value |-> value])

\* Map.prototype.delete
RECURSIVE MapDelete(_, _)
MapDelete(map, key) ==
  IF map = <<>> THEN <<>>
  ELSE IF Head(map).key = key THEN MapDelete(Tail(map), key)
  ELSE <<Head(map)>> \o MapDelete(Tail(map), key)

\* ------------------------------------------------------------- EventTarget
RECURSIVE SelectSeqBy(_, _, _)
SelectSeqBy(seq, type, callback) ==
  IF seq = <<>> THEN <<>>
  ELSE IF Head(seq).type = type /\ Head(seq).callback = callback
       THEN SelectSeqBy(Tail(seq), type, callback)
       ELSE <<Head(seq)>> \o SelectSeqBy(Tail(seq), type, callback)

\* An addEventListener that puts the new listener first.
AddEventListenerFirst(list, type, callback) ==
  IF \E i \in 1..Len(list) : list[i].type = type /\ list[i].callback = callback
  THEN list
  ELSE << [type |-> type, callback |-> callback] >> \o list

\* element.addEventListener(type, callback): appended unless already listed.
AddEventListener(list, type, callback) ==
  IF \E i \in 1..Len(list) : list[i].type = type /\ list[i].callback = callback
  THEN list
  ELSE Append(list, [type |-> type, callback |-> callback])

\* element.removeEventListener(type, callback): only an entry of that very
\* type and callback is removed.
RemoveEventListener(list, type, callback) == SelectSeqBy(list, type, callback)

AddCall(type, callback) == [call |-> "addEventListener", type |-> type, id |-> callback.id]
RemoveCall(type, callback) == [call |-> "removeEventListener", type |-> type, id |-> callback.id]
OriginalDisconnectCall == [call |-> "originalDisconnect", type |-> <<>>, id |-> 0]

\* ------------------------------------------------------------- dispatch
\* The closure delegate creates; its environment holds the arguments of the call.
DelegatedHandlerClosure(id, eventType, selector, handler) ==
  [id |-> id, eventType |-> eventType, selector |-> selector, handler |-> handler]

\* const element = nodeType === ELEMENT_NODE ? eventTarget : eventTarget.parentElement
ResolveElement(par, eventTarget) ==
  IF IsElement(eventTarget) THEN eventTarget ELSE ParentElement(par, eventTarget)

\* What a handler does when it is invoked: h1 returns, h2 throws.
NoError == "none"
HandlerThrows(handler) == IF handler = "h2" THEN "error of h2" ELSE NoError

\* What one run of a listener does: the handler invocations it makes and the
\* errors that leave it.
Nothing == [calls |-> <<>>, thrown |-> <<>>]

Thrown(closure, error) == [listener |-> closure.id, error |-> error]

\* handler(event, target), called without the controller as `this`.
InvokeUnbound(closure, event, target) ==
  [ calls  |-> << [ listener |-> closure,
                    handler  |-> closure.handler,
                    this     |-> "undefined",
                    event    |-> event,
                    target   |-> target ] >>,
    thrown |-> IF HandlerThrows(closure.handler) = NoError
               THEN <<>>
               ELSE << Thrown(closure, HandlerThrows(closure.handler)) >> ]

\* try { handler.call(this, event, target) } catch {}
InvokeSwallowing(closure, event, target) ==
  [ calls  |-> << [ listener |-> closure,
                    handler  |-> closure.handler,
                    this     |-> Controller,
                    event    |-> event,
                    target   |-> target ] >>,
    thrown |-> <<>> ]

\* handler.call(this, event, target): nothing catches what the handler throws.
Invoke(closure, event, target) ==
  [ calls  |-> << [ listener |-> closure,
                    handler  |-> closure.handler,
                    this     |-> Controller,
                    event    |-> event,
                    target   |-> target ] >>,
    thrown |-> IF HandlerThrows(closure.handler) = NoError
               THEN <<>>
               ELSE << Thrown(closure, HandlerThrows(closure.handler)) >> ]

\* delegatedHandler without the containment test `this.element.contains(target)`.
DelegatedHandlerNoContains(par, closure, event) ==
  IF event.target = Null THEN Nothing
  ELSE LET element == ResolveElement(par, event.target)
           target  == Closest(par, element, closure.selector)
       IN IF target # Null
          THEN Invoke(closure, event, target)
          ELSE Nothing

\* delegatedHandler without `if (!eventTarget) return`: reading nodeType of
\* null is a TypeError.
DelegatedHandlerNoNullGuard(par, closure, event) ==
  IF event.target = Null
  THEN [calls |-> <<>>, thrown |-> << Thrown(closure, "TypeError") >>]
  ELSE LET element == ResolveElement(par, event.target)
           target  == Closest(par, element, closure.selector)
       IN IF target # Null /\ Contains(par, Root, target)
          THEN Invoke(closure, event, target)
          ELSE Nothing

\* One run of delegatedHandler(event).
DelegatedHandler(par, closure, event) ==
  IF event.target = Null THEN Nothing
  ELSE LET element == ResolveElement(par, event.target)
           target  == Closest(par, element, closure.selector)
       IN IF target # Null /\ Contains(par, Root, target)
          THEN Invoke(closure, event, target)
          ELSE Nothing

\* Every listener of the root runs, whatever its type.
RECURSIVE RunListenersAnyType(_, _, _)
RunListenersAnyType(par, list, event) ==
  IF list = <<>> THEN Nothing
  ELSE LET first == DelegatedHandler(par, Head(list).callback, event)
           rest  == RunListenersAnyType(par, Tail(list), event)
       IN [calls |-> first.calls \o rest.calls, thrown |-> first.thrown \o rest.thrown]

\* The root's listeners of the event's type run latest first.
RECURSIVE RunListenersLatestFirst(_, _, _)
RunListenersLatestFirst(par, list, event) ==
  IF list = <<>> THEN Nothing
  ELSE LET first == IF Head(list).type = event.type
                    THEN DelegatedHandler(par, Head(list).callback, event)
                    ELSE Nothing
           rest  == RunListenersLatestFirst(par, Tail(list), event)
       IN [calls |-> rest.calls \o first.calls, thrown |-> rest.thrown \o first.thrown]

\* The root's listeners of the event's type run in attach order; an error
\* that leaves one of them does not keep the next ones from running.
RECURSIVE RunListeners(_, _, _)
RunListeners(par, list, event) ==
  IF list = <<>> THEN Nothing
  ELSE LET first == IF Head(list).type = event.type
                    THEN DelegatedHandler(par, Head(list).callback, event)
                    ELSE Nothing
           rest  == RunListeners(par, Tail(list), event)
       IN [calls |-> first.calls \o rest.calls, thrown |-> first.thrown \o rest.thrown]

\* The tree of a page that builds the button outside the root and inserts it
\* into the root later.
DynamicParent == [InitialParent EXCEPT !["btn"] = "ext"]

\* A dispatch that matches against the tree as it was when the page was
\* built, not as it is when the event arrives.
DispatchEventOnBuiltTree(par, list, event) ==
  IF Root \in EventPath(DynamicParent, event.at)
  THEN RunListeners(DynamicParent, list, event)
  ELSE Nothing

\* dispatchEvent of a bubbling event at node `at`: the root's listeners run
\* when the root is on the event's path.
DispatchEvent(par, list, event) ==
  IF Root \in EventPath(par, event.at) THEN RunListeners(par, list, event) ELSE Nothing

\* The root's listeners start to run for an event; they have all returned.
Begin(event) == [mark |-> "begin", event |-> event]
End(event) == [mark |-> "end", event |-> event]

\* The run of the root's listeners that one dispatchEvent causes when no
\* handler dispatches anything itself (h1 and h2 do not).
Flight(par, event) ==
  IF Root \in EventPath(par, event.at) THEN << Begin(event), End(event) >> ELSE <<>>


\* ------------------------------------------------------------- operations
\* <<node the event is dispatched at, event.target>>: events whose target is
\* the node itself, and events whose target a caller redefined.
DispatchInputs == { <<n, n>> : n \in { "span", "txt", "root", "ext" } }
                    \cup { <<Root, t>> : t \in { Null, "orphan", "ext" } }

\* useDelegation that keeps the map a controller already carries.
UseDelegationStaleMap == << [key |-> Key(<<"ui">>, <<"checked">>), value |-> NoClosure] >>

\* delegationController.delegatedEvents = new Map()
UseDelegationMap == EmptyMap

\* useDelegation(controller): an empty map; disconnect is wrapped.
Init ==
  /\ delegatedEvents = UseDelegationMap
  /\ listeners = <<>>
  /\ parent = InitialParent
  /\ nextId = 1
  /\ lastOp = Op("useDelegation", NoArg, NoArg, Null, NoClosure)
  /\ effects = <<>>
  /\ returned = Null
  /\ lastEvent = NoEvent
  /\ calls = <<>>
  /\ thrown = <<>>
  /\ flights = <<>>

\* An operation that ends without `return this`.
ReturnsNothing == Null

\* delegate ends with `return this`
DelegateReturns == Controller

\* delegate: "Remove existing listener if present"
DelegateRemoved(map, list, eventType, key) ==
  IF MapHas(map, key)
  THEN RemoveEventListener(list, eventType, MapGet(map, key))
  ELSE list

\* controller.delegate(eventType, selector, handler)
Delegate(eventType, selector, handler) ==
  /\ nextId <= MaxListeners
  /\ LET key == Key(eventType, selector)
         delegatedHandler == DelegatedHandlerClosure(nextId, eventType, selector, handler)
         removed == DelegateRemoved(delegatedEvents, listeners, eventType, key)
     IN /\ delegatedEvents' = MapSet(delegatedEvents, key, delegatedHandler)
        /\ listeners' = AddEventListener(removed, eventType, delegatedHandler)
        /\ effects' = (IF MapHas(delegatedEvents, key)
                       THEN << RemoveCall(eventType, MapGet(delegatedEvents, key)) >>
                       ELSE <<>>) \o << AddCall(eventType, delegatedHandler) >>
        /\ lastOp' = Op("delegate", eventType, selector, handler, MapGet(delegatedEvents, key))
  /\ nextId' = nextId + 1
  /\ returned' = DelegateReturns
  /\ lastEvent' = NoEvent
  /\ calls' = <<>>
  /\ thrown' = <<>>
  /\ flights' = <<>>
  /\ UNCHANGED parent

\* undelegate ends with `return this`, whether or not it found the key
UndelegateReturns == Controller

\* undelegate: the stored listener is removed from the root
UndelegateRemoved(map, list, eventType, key) ==
  IF MapHas(map, key)
  THEN RemoveEventListener(list, eventType, MapGet(map, key))
  ELSE list

\* controller.undelegate(eventType, selector)
Undelegate(eventType, selector) ==
  /\ LET key == Key(eventType, selector)
     IN /\ listeners' = UndelegateRemoved(delegatedEvents, listeners, eventType, key)
        /\ delegatedEvents' = IF MapHas(delegatedEvents, key)
                              THEN MapDelete(delegatedEvents, key)
                              ELSE delegatedEvents
        /\ effects' = IF MapHas(delegatedEvents, key)
                      THEN << RemoveCall(eventType, MapGet(delegatedEvents, key)) >>
                      ELSE <<>>
        /\ lastOp' = Op("undelegate", eventType, selector, Null, MapGet(delegatedEvents, key))
  /\ returned' = UndelegateReturns
  /\ lastEvent' = NoEvent
  /\ calls' = <<>>
  /\ thrown' = <<>>
  /\ flights' = <<>>
  /\ UNCHANGED << parent, nextId >>

\* The part of a key before its last ':'.
RECURSIVE BeforeLastColon(_)
BeforeLastColon(key) ==
  IF key = <<>> THEN <<>>
  ELSE IF key[Len(key)] = ":" THEN SubSeq(key, 1, Len(key) - 1)
  ELSE BeforeLastColon(SubSeq(key, 1, Len(key) - 1))

\* undelegateAll that splits the key at its last ':'.
UndelegateAllEventTypeLastColon(key) == BeforeLastColon(key)

\* undelegateAll: the event type is read back from the key.
UndelegateAllEventType(key) == FirstSegment(key)

\* The loop of undelegateAll over the map's entries.
RECURSIVE UndelegateAllRemoved(_, _)
UndelegateAllRemoved(map, list) ==
  IF map = <<>> THEN list
  ELSE UndelegateAllRemoved(
         Tail(map),
         RemoveEventListener(list, UndelegateAllEventType(Head(map).key), Head(map).value))

UndelegateAllCalls(map) ==
  [i \in 1..Len(map) |-> RemoveCall(UndelegateAllEventType(map[i].key), map[i].value)]

\* undelegateAll that forgets the first entry only, instead of clearing.
UndelegateAllMapDropsFirst(map) == IF map = <<>> THEN <<>> ELSE Tail(map)

\* this.delegatedEvents.clear()
UndelegateAllMap(map) == EmptyMap

\* undelegateAll ends with `return this`
UndelegateAllReturns == Controller

\* controller.undelegateAll()
UndelegateAll ==
  /\ listeners' = UndelegateAllRemoved(delegatedEvents, listeners)
  /\ delegatedEvents' = UndelegateAllMap(delegatedEvents)
  /\ effects' = UndelegateAllCalls(delegatedEvents)
  /\ lastOp' = Op("undelegateAll", NoArg, NoArg, Null, NoClosure)
  /\ returned' = UndelegateAllReturns
  /\ lastEvent' = NoEvent
  /\ calls' = <<>>
  /\ thrown' = <<>>
  /\ flights' = <<>>
  /\ UNCHANGED << parent, nextId >>

\* A wrapper that calls the original disconnect before undelegateAll.
DisconnectCallsOriginalFirst(map) == << OriginalDisconnectCall >> \o UndelegateAllCalls(map)

\* The wrapper's calls: undelegateAll(), then originalDisconnect.
DisconnectCalls(map) == UndelegateAllCalls(map) \o << OriginalDisconnectCall >>

\* controller.disconnect(), as patched: undelegateAll(), then the original.
Disconnect ==
  /\ listeners' = UndelegateAllRemoved(delegatedEvents, listeners)
  /\ delegatedEvents' = UndelegateAllMap(delegatedEvents)
  /\ effects' = DisconnectCalls(delegatedEvents)
  /\ lastOp' = Op("disconnect", NoArg, NoArg, Null, NoClosure)
  /\ returned' = Null
  /\ lastEvent' = NoEvent
  /\ calls' = <<>>
  /\ thrown' = <<>>
  /\ flights' = <<>>
  /\ UNCHANGED << parent, nextId >>

\* An event of the given type is dispatched at node `at`; event.target is
\* `at`, or what a caller redefined it to be.
Dispatch(type, at, target) ==
  /\ lastEvent' = [type |-> type, at |-> at, target |-> target]
  /\ calls' = DispatchEvent(parent, listeners, lastEvent').calls
  /\ thrown' = DispatchEvent(parent, listeners, lastEvent').thrown
  /\ flights' = Flight(parent, lastEvent')
  /\ UNCHANGED << delegatedEvents, listeners, parent, nextId, lastOp, effects, returned >>

\* The page moves a node (with its subtree) below another parent.
MoveNode(n, p) ==
  /\ parent[n] # p
  /\ parent' = [parent EXCEPT ![n] = p]
  /\ lastEvent' = NoEvent
  /\ calls' = <<>>
  /\ thrown' = <<>>
  /\ flights' = <<>>
  /\ UNCHANGED << delegatedEvents, listeners, nextId, lastOp, effects, returned >>

Next ==
  \/ \E p \in Pairs, h \in Handlers : Delegate(p[1], p[2], h)
  \/ \E p \in Pairs : Undelegate(p[1], p[2])
  \/ UndelegateAll
  \/ Disconnect
  \/ \E e \in EventTypes, d \in DispatchInputs : Dispatch(e, d[1], d[2])
  \/ \E n \in Movable, p \in MoveTargets : MoveNode(n, p)

Spec == Init /\ [][Next]_vars

\* ------------------------------------------------------------- dynamic content
\* The button is built outside the root; the controller registers; the page
\* inserts the button into the root; later the page removes it from the
\* document.  No registry operation runs once the button was inserted.
InitDynamic ==
  /\ delegatedEvents = UseDelegationMap
  /\ listeners = <<>>
  /\ parent = DynamicParent
  /\ nextId = 1
  /\ lastOp = Op("useDelegation", NoArg, NoArg, Null, NoClosure)
  /\ effects = <<>>
  /\ returned = Null
  /\ lastEvent = NoEvent
  /\ calls = <<>>
  /\ thrown = <<>>
  /\ flights = <<>>

NextDynamic ==
  \/ /\ parent["btn"] = "ext"
     /\ \/ \E p \in Pairs, h \in Handlers : Delegate(p[1], p[2], h)
        \/ \E p \in Pairs : Undelegate(p[1], p[2])
        \/ MoveNode("btn", "card")
  \/ /\ parent["btn"] = "card"
     /\ MoveNode("btn", Null)
  \/ \E e \in EventTypes, d \in DispatchInputs : Dispatch(e, d[1], d[2])

SpecDynamic == InitDynamic /\ [][NextDynamic]_vars

\* ------------------------------------------------------------- reconnection
\* connect() registers one pair; the controller is torn down (disconnect, or
\* undelegateAll by hand); connect() runs again and registers one pair; the
\* controller is disconnected for good.  delegate was called nextId - 1 times.
NextReconnect ==
  \/ /\ lastOp.name \in { "useDelegation", "disconnect", "undelegateAll" }
     /\ nextId <= 2
     /\ \E p \in Pairs, h \in Handlers : Delegate(p[1], p[2], h)
  \/ /\ lastOp.name = "delegate"
     /\ nextId = 2
     /\ UndelegateAll
  \/ /\ lastOp.name = "delegate"
     /\ Disconnect
  \/ \E e \in EventTypes, d \in DispatchInputs : Dispatch(e, d[1], d[2])

SpecReconnect == Init /\ [][NextReconnect]_vars

\* ------------------------------------------------------------- the mixin object
\* stimulus-delegation 1.0.0: useDelegation is an object of methods mixed
\* into the controller.  delegatedEvents is an optional property: `defined`
\* tells whether the controller has it, `entries` is the Map.
MixinUndefined == [defined |-> FALSE, entries |-> EmptyMap]

\* Element.prototype.closest: elements have the method, text nodes do not.
HasClosest(n) == IsElement(n)

\* A mixin delegatedHandler without `this.element.contains(target)`.
MixinDelegatedHandlerNoContains(par, closure, event) ==
  IF event.target = Null THEN Nothing
  ELSE IF ~ HasClosest(event.target)
  THEN [calls |-> <<>>, thrown |-> << Thrown(closure, "TypeError") >>]
  ELSE LET target == Closest(par, event.target, closure.selector)
       IN IF target # Null
          THEN Invoke(closure, event, target)
          ELSE Nothing

\* One run of the mixin's delegatedHandler(event):
\*   const target = (event.target as Element)?.closest(selector)
\* `?.` answers undefined for a null target; calling the missing method of a
\* target that has none is a TypeError.
MixinDelegatedHandler(par, closure, event) ==
  IF event.target = Null THEN Nothing
  ELSE IF ~ HasClosest(event.target)
  THEN [calls |-> <<>>, thrown |-> << Thrown(closure, "TypeError") >>]
  ELSE LET target == Closest(par, event.target, closure.selector)
       IN IF target # Null /\ Contains(par, Root, target)
          THEN Invoke(closure, event, target)
          ELSE Nothing

RECURSIVE MixinRunListeners(_, _, _)
MixinRunListeners(par, list, event) ==
  IF list = <<>> THEN Nothing
  ELSE LET first == IF Head(list).type = event.type
                    THEN MixinDelegatedHandler(par, Head(list).callback, event)
                    ELSE Nothing
           rest  == MixinRunListeners(par, Tail(list), event)
       IN [calls |-> first.calls \o rest.calls, thrown |-> first.thrown \o rest.thrown]

MixinDispatchEvent(par, list, event) ==
  IF Root \in EventPath(par, event.at) THEN MixinRunListeners(par, list, event) ELSE Nothing

\* A controller the methods were mixed into: it has no delegatedEvents yet.
InitMixin ==
  /\ delegatedEvents = MixinUndefined
  /\ listeners = <<>>
  /\ parent = InitialParent
  /\ nextId = 1
  /\ lastOp = Op("mixin", NoArg, NoArg, Null, NoClosure)
  /\ effects = <<>>
  /\ returned = Null
  /\ lastEvent = NoEvent
  /\ calls = <<>>
  /\ thrown = <<>>
  /\ flights = <<>>

\* if (!this.delegatedEvents) { this.delegatedEvents = new Map() }
MixinDelegateMap(map) == IF map.defined THEN map.entries ELSE EmptyMap

\* useDelegation.delegate(eventType, selector, handler)
MixinDelegate(eventType, selector, handler) ==
  /\ nextId <= MaxListeners
  /\ LET key == Key(eventType, selector)
         map == MixinDelegateMap(delegatedEvents)
         delegatedHandler == DelegatedHandlerClosure(nextId, eventType, selector, handler)
         removed == DelegateRemoved(map, listeners, eventType, key)
     IN /\ delegatedEvents' = [defined |-> TRUE, entries |-> MapSet(map, key, delegatedHandler)]
        /\ listeners' = AddEventListener(removed, eventType, delegatedHandler)
        /\ effects' = (IF MapHas(map, key)
                       THEN << RemoveCall(eventType, MapGet(map, key)) >>
                       ELSE <<>>) \o << AddCall(eventType, delegatedHandler) >>
        /\ lastOp' = Op("delegate", eventType, selector, handler, MapGet(map, key))
  /\ nextId' = nextId + 1
  /\ returned' = Controller
  /\ lastEvent' = NoEvent
  /\ calls' = <<>>
  /\ thrown' = <<>>
  /\ flights' = <<>>
  /\ UNCHANGED parent

\* useDelegation.undelegate(eventType, selector)
MixinUndelegate(eventType, selector) ==
  /\ LET key == Key(eventType, selector)
         map == delegatedEvents.entries
     IN IF ~ delegatedEvents.defined
        THEN /\ UNCHANGED << delegatedEvents, listeners >>
             /\ effects' = <<>>
             /\ lastOp' = Op("undelegate", eventType, selector, Null, NoClosure)
        ELSE /\ listeners' = UndelegateRemoved(map, listeners, eventType, key)
             /\ delegatedEvents' = [defined |-> TRUE,
                                    entries |-> IF MapHas(map, key)
                                                THEN MapDelete(map, key)
                                                ELSE map]
             /\ effects' = IF MapHas(map, key)
                           THEN << RemoveCall(eventType, MapGet(map, key)) >>
                           ELSE <<>>
             /\ lastOp' = Op("undelegate", eventType, selector, Null, MapGet(map, key))
  /\ returned' = Controller
  /\ lastEvent' = NoEvent
  /\ calls' = <<>>
  /\ thrown' = <<>>
  /\ flights' = <<>>
  /\ UNCHANGED << parent, nextId >>

\* An undelegateAll that makes the map when the controller has none.
MixinUndelegateAllMapCreates(map) == [defined |-> TRUE, entries |-> EmptyMap]

\* if (!this.delegatedEvents) return this; ...; this.delegatedEvents.clear()
MixinUndelegateAllMap(map) ==
  IF ~ map.defined THEN map ELSE [defined |-> TRUE, entries |-> EmptyMap]

\* useDelegation.undelegateAll()
MixinUndelegateAll ==
  /\ listeners' = IF delegatedEvents.defined
                  THEN UndelegateAllRemoved(delegatedEvents.entries, listeners)
                  ELSE listeners
  /\ delegatedEvents' = MixinUndelegateAllMap(delegatedEvents)
  /\ effects' = IF delegatedEvents.defined
                THEN UndelegateAllCalls(delegatedEvents.entries)
                ELSE <<>>
  /\ lastOp' = Op("undelegateAll", NoArg, NoArg, Null, NoClosure)
  /\ returned' = Controller
  /\ lastEvent' = NoEvent
  /\ calls' = <<>>
  /\ thrown' = <<>>
  /\ flights' = <<>>
  /\ UNCHANGED << parent, nextId >>

MixinDispatch(type, at, target) ==
  /\ lastEvent' = [type |-> type, at |-> at, target |-> target]
  /\ calls' = MixinDispatchEvent(parent, listeners, lastEvent').calls
  /\ thrown' = MixinDispatchEvent(parent, listeners, lastEvent').thrown
  /\ flights' = Flight(parent, lastEvent')
  /\ UNCHANGED << delegatedEvents, listeners, parent, nextId, lastOp, effects, returned >>

NextMixin ==
  \/ \E p \in Pairs, h \in Handlers : MixinDelegate(p[1], p[2], h)
  \/ \E p \in Pairs : MixinUndelegate(p[1], p[2])
  \/ MixinUndelegateAll
  \/ \E e \in EventTypes, d \in DispatchInputs : MixinDispatch(e, d[1], d[2])

SpecMixin == InitMixin /\ [][NextMixin]_vars

\* ------------------------------------------------------------- handlers that dispatch
\* A handler may itself call dispatchEvent.  dispatchEvent is synchronous:
\* the listeners of the event it fires run before it returns to the handler.
\* h3 fires a bubbling 'ui:input' event at the element it was given.
NestedHandlers == { "h1", "h3" }

FiredEvent(target) == [type |-> <<"ui", ":", "input">>, at |-> target, target |-> target]

\* Depth of nested dispatchEvent calls at which the call stack is used up:
\* the next dispatchEvent throws a RangeError inside the handler.
MaxDepth == 2

NothingNested == [calls |-> <<>>, thrown |-> <<>>, flights |-> <<>>]

RECURSIVE NestedDispatchEvent(_, _, _, _)

\* A dispatchEvent inside the handler whose listeners have not all returned
\* when the handler goes on.
NestedInvokeUnfinished(par, list, closure, event, target, depth) ==
  LET call  == Invoke(closure, event, target)
      inner == NestedDispatchEvent(par, list, FiredEvent(target), depth + 1)
  IN IF closure.handler # "h3" \/ depth >= MaxDepth
     THEN [calls |-> call.calls, thrown |-> call.thrown, flights |-> <<>>]
     ELSE [ calls   |-> call.calls \o inner.calls,
            thrown  |-> inner.thrown,
            flights |-> SubSeq(inner.flights, 1, Len(inner.flights) - 1) ]

\* handler.call(this, event, target) for a handler that may dispatch: what
\* the fired event's listeners do happens inside the call.  What they throw
\* is reported by the inner dispatchEvent and does not reach the handler.
NestedInvoke(par, list, closure, event, target, depth) ==
  LET call == Invoke(closure, event, target)
  IN IF closure.handler # "h3"
     THEN [calls |-> call.calls, thrown |-> call.thrown, flights |-> <<>>]
     ELSE IF depth >= MaxDepth
     THEN [ calls   |-> call.calls,
            thrown  |-> << Thrown(closure, "RangeError") >>,
            flights |-> <<>> ]
     ELSE LET inner == NestedDispatchEvent(par, list, FiredEvent(target), depth + 1)
          IN [ calls   |-> call.calls \o inner.calls,
               thrown  |-> inner.thrown,
               flights |-> inner.flights ]

\* One run of delegatedHandler(event), `depth` dispatchEvent calls deep.
NestedDelegatedHandler(par, list, closure, event, depth) ==
  IF event.target = Null THEN NothingNested
  ELSE LET element == ResolveElement(par, event.target)
           target  == Closest(par, element, closure.selector)
       IN IF target # Null /\ Contains(par, Root, target)
          THEN NestedInvoke(par, list, closure, event, target, depth)
          ELSE NothingNested

\* The listeners in `rest` run in order; `list` is the root's whole list,
\* which a nested dispatch runs through from the start.
RECURSIVE NestedRunListeners(_, _, _, _, _)
NestedRunListeners(par, list, rest, event, depth) ==
  IF rest = <<>> THEN NothingNested
  ELSE LET first == IF Head(rest).type = event.type
                    THEN NestedDelegatedHandler(par, list, Head(rest).callback, event, depth)
                    ELSE NothingNested
           others == NestedRunListeners(par, list, Tail(rest), event, depth)
       IN [ calls   |-> first.calls \o others.calls,
            thrown  |-> first.thrown \o others.thrown,
            flights |-> first.flights \o others.flights ]

NestedDispatchEvent(par, list, event, depth) ==
  IF Root \in EventPath(par, event.at)
  THEN LET run == NestedRunListeners(par, list, list, event, depth)
       IN [ calls   |-> run.calls,
            thrown  |-> run.thrown,
            flights |-> << Begin(event) >> \o run.flights \o << End(event) >> ]
  ELSE NothingNested

NestedDispatch(type, at, target) ==
  /\ lastEvent' = [type |-> type, at |-> at, target |-> target]
  /\ calls' = NestedDispatchEvent(parent, listeners, lastEvent', 0).calls
  /\ thrown' = NestedDispatchEvent(parent, listeners, lastEvent', 0).thrown
  /\ flights' = NestedDispatchEvent(parent, listeners, lastEvent', 0).flights
  /\ UNCHANGED << delegatedEvents, listeners, parent, nextId, lastOp, effects, returned >>

NextNested ==
  \/ \E p \in Pairs, h \in NestedHandlers : Delegate(p[1], p[2], h)
  \/ \E e \in EventTypes, d \in DispatchInputs : NestedDispatch(e, d[1], d[2])

SpecNested == Init /\ [][NextNested]_vars

\* ------------------------------------------------------------- useDelegation applied again
\* useDelegation(controller) on a controller that already went through it:
\* delegatedEvents becomes a new Map, the listeners attached so far stay on
\* the root, and disconnect (already a wrapper) is wrapped once more.
UseDelegationAgain ==
  /\ lastOp.name = "delegate"
  /\ delegatedEvents' = UseDelegationMap
  /\ lastOp' = Op("useDelegation", NoArg, NoArg, Null, NoClosure)
  /\ effects' = <<>>
  /\ returned' = Null
  /\ lastEvent' = NoEvent
  /\ calls' = <<>>
  /\ thrown' = <<>>
  /\ flights' = <<>>
  /\ UNCHANGED << listeners, parent, nextId >>

\* The calls of the outer wrapper: undelegateAll(), then the wrapper it
\* kept as originalDisconnect, which calls undelegateAll() on the map the
\* first call cleared and then the controller's own disconnect.
DisconnectAgainCalls(map) ==
  UndelegateAllCalls(map) \o DisconnectCalls(UndelegateAllMap(map))

\* controller.disconnect() after useDelegation was applied twice.
DisconnectAgain ==
  /\ lastOp.name = "useDelegation"
  /\ listeners # <<>>
  /\ listeners' = UndelegateAllRemoved(UndelegateAllMap(delegatedEvents),
                                       UndelegateAllRemoved(delegatedEvents, listeners))
  /\ delegatedEvents' = UndelegateAllMap(UndelegateAllMap(delegatedEvents))
  /\ effects' = DisconnectAgainCalls(delegatedEvents)
  /\ lastOp' = Op("disconnect", NoArg, NoArg, Null, NoClosure)
  /\ returned' = Null
  /\ lastEvent' = NoEvent
  /\ calls' = <<>>
  /\ thrown' = <<>>
  /\ flights' = <<>>
  /\ UNCHANGED << parent, nextId >>

\* The controller registers, useDelegation is applied to it again, and it
\* is disconnected.
NextAgain ==
  \/ /\ lastOp.name = "delegate" \/ (lastOp.name = "useDelegation" /\ listeners = <<>>)
     /\ \E p \in Pairs, h \in Handlers : Delegate(p[1], p[2], h)
  \/ UseDelegationAgain
  \/ DisconnectAgain
  \/ \E e \in EventTypes, d \in DispatchInputs : Dispatch(e, d[1], d[2])

SpecAgain == Init /\ [][NextAgain]_vars

\* ------------------------------------------------------------- both implementations
\* One controller enhanced by the function (fn) and one the object was mixed
\* into (mixin), on equal trees, receive the same calls and the same events.
\* delegatedEvents, listeners, calls and thrown hold one value for each.
ElementDispatchInputs == { d \in DispatchInputs : d[2] # Null /\ IsElement(d[2]) }

InitBoth ==
  /\ delegatedEvents = [fn |-> UseDelegationMap, mixin |-> MixinUndefined]
  /\ listeners = [fn |-> <<>>, mixin |-> <<>>]
  /\ parent = InitialParent
  /\ nextId = 1
  /\ lastOp = Op("useDelegation", NoArg, NoArg, Null, NoClosure)
  /\ effects = <<>>
  /\ returned = Null
  /\ lastEvent = NoEvent
  /\ calls = [fn |-> <<>>, mixin |-> <<>>]
  /\ thrown = [fn |-> <<>>, mixin |-> <<>>]
  /\ flights = <<>>

BothDelegate(eventType, selector, handler) ==
  /\ nextId <= MaxListeners
  /\ LET key == Key(eventType, selector)
         delegatedHandler == DelegatedHandlerClosure(nextId, eventType, selector, handler)
         map == MixinDelegateMap(delegatedEvents.mixin)
     IN /\ delegatedEvents' =
             [ fn    |-> MapSet(delegatedEvents.fn, key, delegatedHandler),
               mixin |-> [defined |-> TRUE, entries |-> MapSet(map, key, delegatedHandler)] ]
        /\ listeners' =
             [ fn    |-> AddEventListener(
                           DelegateRemoved(delegatedEvents.fn, listeners.fn, eventType, key),
                           eventType, delegatedHandler),
               mixin |-> AddEventListener(
                           DelegateRemoved(map, listeners.mixin, eventType, key),
                           eventType, delegatedHandler) ]
        /\ lastOp' = Op("delegate", eventType, selector, handler, MapGet(delegatedEvents.fn, key))
  /\ nextId' = nextId + 1
  /\ effects' = <<>>
  /\ returned' = DelegateReturns
  /\ lastEvent' = NoEvent
  /\ calls' = [fn |-> <<>>, mixin |-> <<>>]
  /\ thrown' = [fn |-> <<>>, mixin |-> <<>>]
  /\ flights' = <<>>
  /\ UNCHANGED parent

BothUndelegate(eventType, selector) ==
  /\ LET key == Key(eventType, selector)
         map == delegatedEvents.mixin.entries
     IN /\ delegatedEvents' =
             [ fn    |-> IF MapHas(delegatedEvents.fn, key)
                         THEN MapDelete(delegatedEvents.fn, key)
                         ELSE delegatedEvents.fn,
               mixin |-> IF delegatedEvents.mixin.defined /\ MapHas(map, key)
                         THEN [defined |-> TRUE, entries |-> MapDelete(map, key)]
                         ELSE delegatedEvents.mixin ]
        /\ listeners' =
             [ fn    |-> UndelegateRemoved(delegatedEvents.fn, listeners.fn, eventType, key),
               mixin |-> IF delegatedEvents.mixin.defined
                         THEN UndelegateRemoved(map, listeners.mixin, eventType, key)
                         ELSE listeners.mixin ]
        /\ lastOp' = Op("undelegate", eventType, selector, Null, MapGet(delegatedEvents.fn, key))
  /\ effects' = <<>>
  /\ returned' = UndelegateReturns
  /\ lastEvent' = NoEvent
  /\ calls' = [fn |-> <<>>, mixin |-> <<>>]
  /\ thrown' = [fn |-> <<>>, mixin |-> <<>>]
  /\ flights' = <<>>
  /\ UNCHANGED << parent, nextId >>

BothUndelegateAll ==
  /\ delegatedEvents' = [ fn    |-> UndelegateAllMap(delegatedEvents.fn),
                          mixin |-> MixinUndelegateAllMap(delegatedEvents.mixin) ]
  /\ listeners' =
       [ fn    |-> UndelegateAllRemoved(delegatedEvents.fn, listeners.fn),
         mixin |-> IF delegatedEvents.mixin.defined
                   THEN UndelegateAllRemoved(delegatedEvents.mixin.entries, listeners.mixin)
                   ELSE listeners.mixin ]
  /\ lastOp' = Op("undelegateAll", NoArg, NoArg, Null, NoClosure)
  /\ effects' = <<>>
  /\ returned' = UndelegateAllReturns
  /\ lastEvent' = NoEvent
  /\ calls' = [fn |-> <<>>, mixin |-> <<>>]
  /\ thrown' = [fn |-> <<>>, mixin |-> <<>>]
  /\ flights' = <<>>
  /\ UNCHANGED << parent, nextId >>

BothDispatch(type, at, target) ==
  /\ lastEvent' = [type |-> type, at |-> at, target |-> target]
  /\ calls' = [ fn    |-> DispatchEvent(parent, listeners.fn, lastEvent').calls,
                mixin |-> MixinDispatchEvent(parent, listeners.mixin, lastEvent').calls ]
  /\ thrown' = [ fn    |-> DispatchEvent(parent, listeners.fn, lastEvent').thrown,
                 mixin |-> MixinDispatchEvent(parent, listeners.mixin, lastEvent').thrown ]
  /\ flights' = Flight(parent, lastEvent')
  /\ UNCHANGED << delegatedEvents, listeners, parent, nextId, lastOp, effects, returned >>

NextBoth ==
  \/ \E p \in Pairs, h \in Handlers : BothDelegate(p[1], p[2], h)
  \/ \E p \in Pairs : BothUndelegate(p[1], p[2])
  \/ BothUndelegateAll
  \/ \E e \in EventTypes, d \in ElementDispatchInputs : BothDispatch(e, d[1], d[2])

SpecBoth == InitBoth /\ [][NextBoth]_vars

\* ------------------------------------------------------------- two controllers
\* Two controllers, each enhanced by its own useDelegation call.  c1 owns the
\* root, c2 owns the button, which lies inside the root until the page moves
\* it out.  delegatedEvents holds one Map per controller, listeners one
\* listener list per owned element.
Controllers == { "c1", "c2" }

\* Both controllers with the same element.
ElementOfShared(controller) == Root

\* controller.element
ElementOf(controller) == IF controller = "c1" THEN Root ELSE "btn"

TwoHandlers == { "h1" }

\* The pairs both controllers register: the same selector, for an event type
\* without and one with ':'.
TwoPairs == { p \in Pairs : p[2] = <<"checked">> }

TwoDispatchInputs == { <<n, n>> : n \in { "span", "root" } }

\* The closure delegate creates; `this` of the delegate call is its owner.
TwoClosure(owner, id, eventType, selector, handler) ==
  [owner |-> owner, id |-> id, eventType |-> eventType, selector |-> selector,
   handler |-> handler]

TwoOp(controller, name, eventType, selector) ==
  [controller |-> controller, name |-> name, eventType |-> eventType, selector |-> selector]

\* One run of delegatedHandler(event) of a closure of either controller.
TwoDelegatedHandler(par, closure, event) ==
  IF event.target = Null THEN <<>>
  ELSE LET element == ResolveElement(par, event.target)
           target  == Closest(par, element, closure.selector)
       IN IF target # Null /\ Contains(par, ElementOf(closure.owner), target)
          THEN << [ listener |-> closure,
                    handler  |-> closure.handler,
                    this     |-> closure.owner,
                    event    |-> event,
                    target   |-> target ] >>
          ELSE <<>>

RECURSIVE TwoRunListeners(_, _, _)
TwoRunListeners(par, list, event) ==
  IF list = <<>> THEN <<>>
  ELSE (IF Head(list).type = event.type
        THEN TwoDelegatedHandler(par, Head(list).callback, event)
        ELSE <<>>) \o TwoRunListeners(par, Tail(list), event)

\* A bubbling event reaches the button's listeners before the root's.
TwoDispatchEvent(par, lists, event) ==
  (IF "btn" \in EventPath(par, event.at)
   THEN TwoRunListeners(par, lists["btn"], event) ELSE <<>>)
  \o (IF Root \in EventPath(par, event.at)
      THEN TwoRunListeners(par, lists[Root], event) ELSE <<>>)

InitTwo ==
  /\ delegatedEvents = [c \in Controllers |-> UseDelegationMap]
  /\ listeners = [n \in { Root, "btn" } |-> <<>>]
  /\ parent = InitialParent
  /\ nextId = 1
  /\ lastOp = TwoOp(Null, "useDelegation", NoArg, NoArg)
  /\ effects = <<>>
  /\ returned = Null
  /\ lastEvent = NoEvent
  /\ calls = <<>>
  /\ thrown = <<>>
  /\ flights = <<>>

TwoDelegate(c, eventType, selector, handler) ==
  /\ nextId <= MaxListeners
  /\ LET key == Key(eventType, selector)
         map == delegatedEvents[c]
         list == listeners[ElementOf(c)]
         delegatedHandler == TwoClosure(c, nextId, eventType, selector, handler)
     IN /\ delegatedEvents' = [delegatedEvents EXCEPT ![c] = MapSet(map, key, delegatedHandler)]
        /\ listeners' = [listeners EXCEPT ![ElementOf(c)] =
                           AddEventListener(DelegateRemoved(map, list, eventType, key),
                                            eventType, delegatedHandler)]
        /\ effects' = (IF MapHas(map, key)
                       THEN << RemoveCall(eventType, MapGet(map, key)) >>
                       ELSE <<>>) \o << AddCall(eventType, delegatedHandler) >>
  /\ lastOp' = TwoOp(c, "delegate", eventType, selector)
  /\ nextId' = nextId + 1
  /\ returned' = c
  /\ lastEvent' = NoEvent
  /\ calls' = <<>>
  /\ thrown' = <<>>
  /\ flights' = <<>>
  /\ UNCHANGED parent

TwoUndelegate(c, eventType, selector) ==
  /\ LET key == Key(eventType, selector)
         map == delegatedEvents[c]
         list == listeners[ElementOf(c)]
     IN /\ listeners' = [listeners EXCEPT ![ElementOf(c)] =
                           UndelegateRemoved(map, list, eventType, key)]
        /\ delegatedEvents' = [delegatedEvents EXCEPT ![c] =
                                 IF MapHas(map, key) THEN MapDelete(map, key) ELSE map]
        /\ effects' = IF MapHas(map, key)
                      THEN << RemoveCall(eventType, MapGet(map, key)) >>
                      ELSE <<>>
  /\ lastOp' = TwoOp(c, "undelegate", eventType, selector)
  /\ returned' = c
  /\ lastEvent' = NoEvent
  /\ calls' = <<>>
  /\ thrown' = <<>>
  /\ flights' = <<>>
  /\ UNCHANGED << parent, nextId >>

TwoUndelegateAll(c) ==
  /\ listeners' = [listeners EXCEPT ![ElementOf(c)] =
                     UndelegateAllRemoved(delegatedEvents[c], listeners[ElementOf(c)])]
  /\ delegatedEvents' = [delegatedEvents EXCEPT ![c] = UndelegateAllMap(delegatedEvents[c])]
  /\ effects' = UndelegateAllCalls(delegatedEvents[c])
  /\ lastOp' = TwoOp(c, "undelegateAll", NoArg, NoArg)
  /\ returned' = c
  /\ lastEvent' = NoEvent
  /\ calls' = <<>>
  /\ thrown' = <<>>
  /\ flights' = <<>>
  /\ UNCHANGED << parent, nextId >>

TwoDisconnect(c) ==
  /\ listeners' = [listeners EXCEPT ![ElementOf(c)] =
                     UndelegateAllRemoved(delegatedEvents[c], listeners[ElementOf(c)])]
  /\ delegatedEvents' = [delegatedEvents EXCEPT ![c] = UndelegateAllMap(delegatedEvents[c])]
  /\ effects' = DisconnectCalls(delegatedEvents[c])
  /\ lastOp' = TwoOp(c, "disconnect", NoArg, NoArg)
  /\ returned' = Null
  /\ lastEvent' = NoEvent
  /\ calls' = <<>>
  /\ thrown' = <<>>
  /\ flights' = <<>>
  /\ UNCHANGED << parent, nextId >>

TwoDispatch(type, at, target) ==
  /\ lastEvent' = [type |-> type, at |-> at, target |-> target]
  /\ calls' = TwoDispatchEvent(parent, listeners, lastEvent')
  /\ thrown' = <<>>
  /\ flights' = <<>>
  /\ UNCHANGED << delegatedEvents, listeners, parent, nextId, lastOp, effects, returned >>

NextTwo ==
  \/ \E c \in Controllers, p \in TwoPairs, h \in TwoHandlers : TwoDelegate(c, p[1], p[2], h)
  \/ \E c \in Controllers, p \in TwoPairs : TwoUndelegate(c, p[1], p[2])
  \/ \E c \in Controllers : TwoUndelegateAll(c)
  \/ \E c \in Controllers : TwoDisconnect(c)
  \/ \E e \in EventTypes, d \in TwoDispatchInputs : TwoDispatch(e, d[1], d[2])
  \/ \E n \in Movable, p \in MoveTargets : MoveNode(n, p)

SpecTwo == InitTwo /\ [][NextTwo]_vars


\* ------------------------------------------------------------- handlers that call the controller
\* A handler runs with the controller as `this`, so it may call the
\* controller's own operations while the event is being dispatched:
\*   h4 calls this.delegate(eventType, selector, h4) for its own pair,
\*   h5 calls this.disconnect(), which calls this.undelegateAll().
\* h1 and h2 call none of them.
ReentrantHandlers == { "h1", "h2", "h4", "h5" }

ReentrantDispatchInputs == { <<"span", "span">>, <<Root, Root>>, <<Root, Null>> }

\* The controller and the root's listener list while listeners run.
Run(map, list, id, op, made, ret) ==
  [ map |-> map, list |-> list, nextId |-> id, calls |-> <<>>, thrown |-> <<>>,
    lastOp |-> op, effects |-> made, returned |-> ret ]

\* this.delegate(eventType, selector, handler), called by a handler
DelegateIn(run, eventType, selector, handler) ==
  LET key == Key(eventType, selector)
      delegatedHandler == DelegatedHandlerClosure(run.nextId, eventType, selector, handler)
      removed == DelegateRemoved(run.map, run.list, eventType, key)
  IN [ run EXCEPT
         !.map = MapSet(run.map, key, delegatedHandler),
         !.list = AddEventListener(removed, eventType, delegatedHandler),
         !.nextId = run.nextId + 1,
         !.lastOp = Op("delegate", eventType, selector, handler, MapGet(run.map, key)),
         !.effects = (IF MapHas(run.map, key)
                      THEN << RemoveCall(eventType, MapGet(run.map, key)) >>
                      ELSE <<>>) \o << AddCall(eventType, delegatedHandler) >>,
         !.returned = DelegateReturns ]

\* this.disconnect(), called by a handler: undelegateAll(), then the original
DisconnectIn(run) ==
  [ run EXCEPT
      !.list = UndelegateAllRemoved(run.map, run.list),
      !.map = UndelegateAllMap(run.map),
      !.lastOp = Op("disconnect", NoArg, NoArg, Null, NoClosure),
      !.effects = DisconnectCalls(run.map),
      !.returned = Null ]

\* handler.call(this, event, target), and what the handler's body then does.
ReentrantInvoke(run, closure, event, target) ==
  LET invoked == Invoke(closure, event, target)
      after == CASE closure.handler = "h4" ->
                      DelegateIn(run, closure.eventType, closure.selector, closure.handler)
                 [] closure.handler = "h5" -> DisconnectIn(run)
                 [] OTHER -> run
  IN [ after EXCEPT !.calls = run.calls \o invoked.calls,
                    !.thrown = run.thrown \o invoked.thrown ]

\* A delegatedHandler that detaches and forgets its registration once it
\* has invoked the handler.
ReentrantDelegatedHandlerOnce(par, run, closure, event) ==
  IF event.target = Null THEN run
  ELSE LET element == ResolveElement(par, event.target)
           target  == Closest(par, element, closure.selector)
           after   == ReentrantInvoke(run, closure, event, target)
       IN IF target # Null /\ Contains(par, Root, target)
          THEN [ after EXCEPT
                   !.list = RemoveEventListener(after.list, closure.eventType, closure),
                   !.map = MapDelete(after.map, Key(closure.eventType, closure.selector)) ]
          ELSE run

\* One run of delegatedHandler(event).
ReentrantDelegatedHandler(par, run, closure, event) ==
  IF event.target = Null THEN run
  ELSE LET element == ResolveElement(par, event.target)
           target  == Closest(par, element, closure.selector)
       IN IF target # Null /\ Contains(par, Root, target)
          THEN ReentrantInvoke(run, closure, event, target)
          ELSE run

IsAttached(list, type, callback) ==
  \E i \in 1..Len(list) : list[i].type = type /\ list[i].callback = callback

\* The listeners the root had when the event arrived run in attach order; one
\* that was removed in the meantime is skipped, one that was added is not run.
RECURSIVE ReentrantRunListeners(_, _, _, _)
ReentrantRunListeners(par, run, snapshot, event) ==
  IF snapshot = <<>> THEN run
  ELSE LET first == IF /\ Head(snapshot).type = event.type
                       /\ IsAttached(run.list, Head(snapshot).type, Head(snapshot).callback)
                    THEN ReentrantDelegatedHandler(par, run, Head(snapshot).callback, event)
                    ELSE run
       IN ReentrantRunListeners(par, first, Tail(snapshot), event)

ReentrantDispatchEvent(par, run, event) ==
  IF Root \in EventPath(par, event.at)
  THEN ReentrantRunListeners(par, run, run.list, event)
  ELSE run

\* An event is dispatched; the handlers it invokes may call the controller.
ReentrantDispatch(type, at, target) ==
  LET event == [type |-> type, at |-> at, target |-> target]
      start == Run(delegatedEvents, listeners, nextId, lastOp, effects, returned)
      end   == ReentrantDispatchEvent(parent, start, event)
  IN /\ end.nextId <= MaxListeners + 1
     /\ lastEvent' = event
     /\ delegatedEvents' = end.map
     /\ listeners' = end.list
     /\ nextId' = end.nextId
     /\ calls' = end.calls
     /\ thrown' = end.thrown
     /\ lastOp' = end.lastOp
     /\ effects' = end.effects
     /\ returned' = end.returned
     /\ flights' = Flight(parent, event)
     /\ UNCHANGED parent

NextReentrant ==
  \/ \E p \in Pairs, h \in ReentrantHandlers : Delegate(p[1], p[2], h)
  \/ \E e \in EventTypes, d \in ReentrantDispatchInputs : ReentrantDispatch(e, d[1], d[2])

SpecReentrant == Init /\ [][NextReentrant]_vars



\* ------------------------------------------------------------- properties
Dispatched == lastEvent # NoEvent

\* An event whose target is the node it was dispatched at.
NaturalEvent == Dispatched /\ lastEvent.target = lastEvent.at

AttachedClosures == { listeners[i].callback : i \in 1..Len(listeners) }
StoredClosures == { delegatedEvents[i].value : i \in 1..Len(delegatedEvents) }

\* n lies in the root's subtree (the root included).
InRoot(n) == Root \in EventPath(parent, n)

\* The elements among n and its ancestors that match and lie in the root's subtree.
MatchesInRoot(n, selector) ==
  { a \in EventPath(parent, n) : IsElement(a) /\ Matches(a, selector) /\ InRoot(a) }

\* The nearest of them: the one every other one is an ancestor of.
Nearest(n, selector) ==
  CHOOSE a \in MatchesInRoot(n, selector) :
    \A b \in MatchesInRoot(n, selector) : b \in EventPath(parent, a)

\* The invocations made for the pair (eventType, selector).
CallsOfPair(eventType, selector) ==
  { j \in 1..Len(calls) : /\ calls[j].listener.eventType = eventType
                          /\ calls[j].listener.selector = selector }

ListenersOfPair(eventType, selector) ==
  { i \in 1..Len(listeners) : /\ listeners[i].callback.eventType = eventType
                              /\ listeners[i].callback.selector = selector }

\* The event dispatched last is of the type, started at an element of the
\* root's subtree and has a match for the selector inside the root.
MatchingEvent(eventType, selector) ==
  /\ NaturalEvent
  /\ lastEvent.type = eventType
  /\ IsElement(lastEvent.target)
  /\ InRoot(lastEvent.target)
  /\ MatchesInRoot(lastEvent.target, selector) # {}

\* C1: for every registered (eventType, selector, handler), an event of that
\* type whose origin is an element of the root's subtree with a match inside
\* the root invokes the handler exactly once, with the event and the nearest
\* matching ancestor-or-self.
C1_InvokedOnceWithNearest ==
  \A c \in StoredClosures :
    MatchingEvent(c.eventType, c.selector) =>
      LET made == { j \in CallsOfPair(c.eventType, c.selector) : calls[j].handler = c.handler }
      IN /\ Cardinality(made) = 1
         /\ \A j \in made : /\ calls[j].event = lastEvent
                            /\ calls[j].target = Nearest(lastEvent.target, c.selector)

\* C2: after undelegateAll the registry has size 0 and no event invokes a handler.
C2_UndelegateAllSilences ==
  lastOp.name = "undelegateAll" => /\ Len(delegatedEvents) = 0
                                   /\ calls = <<>>

\* C3: after the patched disconnect no listener created by delegate is attached
\* to the root and no later event invokes a handler.
C3_DisconnectDetachesAll ==
  lastOp.name = "disconnect" => /\ listeners = <<>>
                                /\ calls = <<>>

\* C4: a listener is attached to the root if and only if it is stored in the
\* registry under some key.
C4_AttachedIffStored == AttachedClosures = StoredClosures

\* C5: re-registering a registered pair with a new handler leaves exactly one
\* listener for the pair, and a matching event invokes the old handler zero
\* times and the new handler exactly once.
C5_ReRegisterReplaces ==
  ( /\ lastOp.name = "delegate"
    /\ lastOp.found.id # 0
    /\ lastOp.found.eventType = lastOp.eventType
    /\ lastOp.found.selector = lastOp.selector
    /\ lastOp.found.handler # lastOp.handler )
  => /\ Cardinality(ListenersOfPair(lastOp.eventType, lastOp.selector)) = 1
     /\ MatchingEvent(lastOp.eventType, lastOp.selector) =>
          /\ Cardinality(CallsOfPair(lastOp.eventType, lastOp.selector)) = 1
          /\ \A j \in CallsOfPair(lastOp.eventType, lastOp.selector) :
               calls[j].handler = lastOp.handler

\* C6: after undelegate of a registered pair its entry is gone and no event
\* invokes the pair's handler.
C6_UndelegateStopsHandler ==
  ( /\ lastOp.name = "undelegate"
    /\ lastOp.found.id # 0
    /\ lastOp.found.eventType = lastOp.eventType
    /\ lastOp.found.selector = lastOp.selector )
  => /\ ~ MapHas(delegatedEvents, Key(lastOp.eventType, lastOp.selector))
     /\ CallsOfPair(lastOp.eventType, lastOp.selector) = {}

\* C7: a handler is never invoked with a matched element outside the root's
\* subtree; a listener whose selector is matched by no element inside the
\* root invokes nothing.
C7_NeverOutsideRoot ==
  Dispatched =>
    /\ \A j \in 1..Len(calls) : InRoot(calls[j].target)
    /\ \A c \in AttachedClosures :
         (\A n \in Nodes : IsElement(n) /\ Matches(n, c.selector) => ~ InRoot(n))
           => CallsOfPair(c.eventType, c.selector) = {}

\* C7 witness: an event reached a listener of its type whose nearest match
\* lies outside the root, and the handler was not invoked.
C7_Witness ==
  /\ Dispatched
  /\ InRoot(lastEvent.at)
  /\ lastEvent.target # Null
  /\ \E c \in AttachedClosures :
       /\ c.eventType = lastEvent.type
       /\ \E n \in Nodes : /\ Matches(n, c.selector)
                           /\ n \in EventPath(parent, lastEvent.target)
                           /\ ~ InRoot(n)
       /\ MatchesInRoot(lastEvent.target, c.selector) = {}
       /\ CallsOfPair(c.eventType, c.selector) = {}

\* C8: the key is injective: a delegate call never replaces the registration
\* of a pair other than its own.
C8_KeyInjective ==
  [][ \A i \in 1..Len(delegatedEvents) : \A j \in 1..Len(delegatedEvents') :
        ( /\ delegatedEvents[i].key = delegatedEvents'[j].key
          /\ delegatedEvents[i].value # delegatedEvents'[j].value )
        => /\ delegatedEvents[i].value.eventType = delegatedEvents'[j].value.eventType
           /\ delegatedEvents[i].value.selector = delegatedEvents'[j].value.selector ]_vars

\* C9: the root has at most one listener attached per event type.
C9_OneListenerPerType ==
  \A t \in EventTypes :
    Cardinality({ i \in 1..Len(listeners) : listeners[i].type = t }) <= 1

\* C10: an event whose target is a text node inside an element matching a
\* registered selector invokes the handler once with that element; a text
\* node without enclosing element causes no invocation.
C10_TextNodeResolved ==
  (Dispatched /\ lastEvent.target \in TextNodes) =>
    IF parent[lastEvent.target] = Null
    THEN calls = <<>>
    ELSE \A c \in StoredClosures :
           ( /\ lastEvent.type = c.eventType
             /\ InRoot(lastEvent.at)
             /\ Matches(parent[lastEvent.target], c.selector)
             /\ InRoot(parent[lastEvent.target]) )
           => LET made == { j \in CallsOfPair(c.eventType, c.selector) :
                              calls[j].handler = c.handler }
              IN /\ Cardinality(made) = 1
                 /\ \A j \in made : calls[j].target = parent[lastEvent.target]


\* ------------------------------------------------------------- properties (2)
RegistryUnchanged == delegatedEvents' = delegatedEvents /\ listeners' = listeners

\* No registration of the pair is stored.
Unregistered(eventType, selector) ==
  ~ \E c \in StoredClosures : c.eventType = eventType /\ c.selector = selector

\* C11: an event whose target is null invokes no handler and raises nothing.
C11_NullTargetIgnored ==
  (Dispatched /\ lastEvent.target = Null) => calls = <<>> /\ thrown = <<>>

\* C11 witness: such an event reached a listener of its type.
C11_Witness ==
  /\ Dispatched
  /\ lastEvent.target = Null
  /\ InRoot(lastEvent.at)
  /\ \E i \in 1..Len(listeners) : listeners[i].type = lastEvent.type

\* C12: undelegate of a pair without registration, and undelegateAll on an
\* empty registry, raise nothing and leave registry and listeners unchanged.
C12_NoOpsChangeNothing ==
  [][ /\ \A p \in Pairs :
           (Undelegate(p[1], p[2]) /\ Unregistered(p[1], p[2]))
             => RegistryUnchanged /\ thrown' = <<>>
      /\ (UndelegateAll /\ delegatedEvents = EmptyMap)
             => RegistryUnchanged /\ thrown' = <<>> ]_vars

\* How often an event of the type, dispatched at d[1] with target d[2], makes
\* the closure invoke its handler, given the root's listener list.
InvocationsBy(closure, list, type, d) ==
  LET made == DispatchEvent(parent, list, [type |-> type, at |-> d[1], target |-> d[2]]).calls
  IN Cardinality({ j \in 1..Len(made) : made[j].listener = closure })

\* C13: undelegate of one pair leaves every registration of another pair
\* stored and attached, and its handler invoked by the same events as before.
C13_UndelegateRemovesOnlyItsPair ==
  [][ \A p \in Pairs :
        Undelegate(p[1], p[2]) =>
          \A c \in StoredClosures :
            (c.eventType # p[1] \/ c.selector # p[2]) =>
              /\ c \in { delegatedEvents'[i].value : i \in 1..Len(delegatedEvents') }
              /\ \E i \in 1..Len(listeners') :
                   listeners'[i].type = c.eventType /\ listeners'[i].callback = c
              /\ \A e \in EventTypes, d \in DispatchInputs :
                   InvocationsBy(c, listeners', e, d) = InvocationsBy(c, listeners, e, d) ]_vars

\* C14: a handler registered for one event type is never invoked by an event
\* of another type.
C14_OnlyOwnEventType ==
  Dispatched => \A j \in 1..Len(calls) : calls[j].listener.eventType = lastEvent.type

\* C14 witness: a handler was invoked while a listener with the same selector
\* and another event type was attached.
C14_Witness ==
  /\ Dispatched
  /\ \E j \in 1..Len(calls) : \E i \in 1..Len(listeners) :
       /\ listeners[i].callback.selector = calls[j].listener.selector
       /\ listeners[i].type # lastEvent.type

\* C15: whether a listener invokes its handler depends on the tree at dispatch
\* time: it does exactly when the event's origin then lies in the root's
\* subtree and has a match inside the root.
C15_MatchedAtDispatchTime ==
  (NaturalEvent /\ IsElement(lastEvent.target)) =>
    \A i \in 1..Len(listeners) :
      listeners[i].type = lastEvent.type =>
        ( (\E j \in 1..Len(calls) : calls[j].listener = listeners[i].callback)
          <=> ( /\ InRoot(lastEvent.target)
                /\ MatchesInRoot(lastEvent.target, listeners[i].callback.selector) # {} ) )

\* C15 witness: the button was inserted into the root after every delegate
\* call, and an event from inside it invoked a handler.
C15_Witness ==
  /\ parent["btn"] = "card"
  /\ NaturalEvent
  /\ lastEvent.at = "span"
  /\ calls # <<>>

\* C16: every invocation is made with the controller as `this`.
C16_ThisIsController ==
  Dispatched => \A j \in 1..Len(calls) : calls[j].this = Controller

C16_Witness == Dispatched /\ calls # <<>>

\* C17: delegate, undelegate and undelegateAll return the controller in
\* every case.
C17_ReturnsController ==
  lastOp.name \in { "delegate", "undelegate", "undelegateAll" } => returned = Controller

\* C17 witness: an undelegate that found nothing under its key.
C17_Witness == lastOp.name = "undelegate" /\ lastOp.found.id = 0

\* C18: the patched disconnect runs undelegateAll to its end and then calls
\* the original disconnect, once.
C18_DisconnectOrder ==
  lastOp.name = "disconnect" =>
    /\ effects # <<>>
    /\ effects[Len(effects)] = OriginalDisconnectCall
    /\ \A i \in 1..(Len(effects) - 1) : effects[i].call = "removeEventListener"
    /\ delegatedEvents = EmptyMap

\* C18 witness: a disconnect with registrations to tear down.
C18_Witness == lastOp.name = "disconnect" /\ Len(effects) >= 2

\* The errors of the handlers invoked, in invocation order.
RECURSIVE ErrorsOf(_)
ErrorsOf(invocations) ==
  IF invocations = <<>> THEN <<>>
  ELSE LET first == Head(invocations)
       IN (IF HandlerThrows(first.handler) = NoError
           THEN <<>>
           ELSE << Thrown(first.listener, HandlerThrows(first.handler)) >>)
          \o ErrorsOf(Tail(invocations))

\* C19: what a handler throws leaves the listener unchanged: not swallowed,
\* not wrapped.
C19_HandlerErrorPropagates == Dispatched => thrown = ErrorsOf(calls)

C19_Witness == Dispatched /\ thrown # <<>>

\* C20: undelegateAll right after undelegateAll, or on an empty registry,
\* changes neither the registry nor the attached listeners.
C20_UndelegateAllIdempotent ==
  [][ (UndelegateAll /\ (lastOp.name = "undelegateAll" \/ delegatedEvents = EmptyMap))
        => RegistryUnchanged ]_vars

\* C20 witness: undelegateAll ran on a registry already emptied, with a
\* listener still attached.
C20_Witness ==
  /\ lastOp.name = "undelegateAll"
  /\ effects = <<>>
  /\ listeners # <<>>


\* ------------------------------------------------------------- properties (3)
\* C21: for one event, the handlers are invoked in the order in which their
\* listeners were attached (a listener is attached when delegate creates it,
\* and delegate numbers its closures in creation order).
C21_InvokedInAttachOrder ==
  Dispatched =>
    \A j, k \in 1..Len(calls) :
      j < k => calls[j].listener.id < calls[k].listener.id

\* C21 witness: one event invoked the handlers of two registrations.
C21_Witness == Dispatched /\ Len(calls) >= 2

\* C22: right after useDelegation(controller) the registry is an empty map
\* and no listener is attached to the root.
C22_StartsEmpty ==
  lastOp.name = "useDelegation" => /\ delegatedEvents = EmptyMap
                                   /\ Len(delegatedEvents) = 0
                                   /\ listeners = <<>>

\* C22 witness: an event is dispatched before any registry operation and
\* invokes nothing.
C22_Witness ==
  /\ lastOp.name = "useDelegation"
  /\ Dispatched
  /\ InRoot(lastEvent.at)
  /\ calls = <<>>

\* The place of a closure's listener among the root's listeners of its event
\* type (1 = fires first); 0 when it is not attached.
FiringPosition(list, closure) ==
  IF \E i \in 1..Len(list) : list[i].callback = closure
  THEN LET at == CHOOSE i \in 1..Len(list) : list[i].callback = closure
       IN Cardinality({ i \in 1..at : list[i].type = list[at].type })
  ELSE 0

C24_DelegateStoresAndAttaches ==
  lastOp.name = "delegate" =>
    LET stored == MapGet(delegatedEvents, Key(lastOp.eventType, lastOp.selector))
    IN /\ MapHas(delegatedEvents, Key(lastOp.eventType, lastOp.selector))
       /\ stored.id = nextId - 1
       /\ stored.handler = lastOp.handler
       /\ \E i \in 1..Len(listeners) :
            listeners[i].type = lastOp.eventType /\ listeners[i].callback = stored
       /\ returned = Controller

\* C24 witness: delegate found its key present, stored by another pair.
C24_Witness ==
  /\ lastOp.name = "delegate"
  /\ lastOp.found.id # 0
  /\ lastOp.found.eventType # lastOp.eventType

\* type is the part of key before its first ':'.
IsBeforeFirstColon(type, key) ==
  /\ Len(type) < Len(key)
  /\ \A k \in 1..Len(type) : type[k] = key[k] /\ type[k] # ":"
  /\ key[Len(type) + 1] = ":"

Reconnected == nextId = 3 /\ lastOp.name = "delegate"

\* The controller was disconnected after it had registered again.
DisconnectedAgain == nextId = 3 /\ lastOp.name = "disconnect"

\* C26: after a teardown, delegate makes a matching event invoke the handler
\* exactly once, and the next disconnect removes the listener again: no event
\* invokes a handler then.
C26_ReusableAfterTeardown ==
  /\ (Reconnected /\ MatchingEvent(lastOp.eventType, lastOp.selector)) =>
       Cardinality({ j \in CallsOfPair(lastOp.eventType, lastOp.selector) :
                       calls[j].handler = lastOp.handler }) = 1
  /\ DisconnectedAgain =>
       /\ ~ \E i \in 1..Len(listeners) : listeners[i].callback.id = 2
       /\ calls = <<>>

\* C30: for one event, every registration of the event's type whose selector
\* has a match among the origin and its ancestors inside the root is invoked
\* exactly once, with its own nearest match, whatever other selectors are
\* registered.
C30_EachMatchingRegistrationOnce ==
  \A c \in StoredClosures :
    MatchingEvent(c.eventType, c.selector) =>
      /\ Cardinality(CallsOfPair(c.eventType, c.selector)) = 1
      /\ \A j \in CallsOfPair(c.eventType, c.selector) :
           calls[j].target = Nearest(lastEvent.target, c.selector)

\* C27: in the mixin object, an event whose target is not null and has no
\* closest method (a text node) raises nothing and invokes no handler.
C27_MixinTargetWithoutClosest ==
  (Dispatched /\ lastEvent.target # Null /\ ~ HasClosest(lastEvent.target)) =>
    calls = <<>> /\ thrown = <<>>

\* C28: in the mixin object, the controller has no map until the first
\* delegate call; undelegate and undelegateAll before that call create no
\* map, detach nothing and return the controller.
C28_MixinMapMadeByDelegate ==
  /\ delegatedEvents.defined <=> nextId > 1
  /\ (nextId = 1 /\ lastOp.name \in { "undelegate", "undelegateAll" }) =>
       /\ delegatedEvents = MixinUndefined
       /\ listeners = <<>>
       /\ effects = <<>>
       /\ returned = Controller

\* C28 witness: undelegateAll ran on a controller without map.
C28_Witness == nextId = 1 /\ lastOp.name = "undelegateAll"

\* The number of runs of the root's listeners that have begun and not ended
\* after the first k marks of the log.
InFlight(k) ==
  Cardinality({ i \in 1..k : flights[i].mark = "begin" })
    - Cardinality({ i \in 1..k : flights[i].mark = "end" })

\* The log read against the stack of dispatches in flight: a begin pushes its
\* event, an end pops the event on top; nothing is left at the end.
RECURSIVE Unwinds(_, _)
Unwinds(log, stack) ==
  IF log = <<>> THEN stack = <<>>
  ELSE IF Head(log).mark = "begin"
  THEN Unwinds(Tail(log), << Head(log).event >> \o stack)
  ELSE /\ stack # <<>>
       /\ Head(stack) = Head(log).event
       /\ Unwinds(Tail(log), Tail(stack))

C31_RootItselfMatches ==
  (Dispatched /\ lastEvent.target # Null /\ InRoot(lastEvent.at) /\ InRoot(lastEvent.target)) =>
    \A c \in StoredClosures :
      ( /\ lastEvent.type = c.eventType
        /\ MatchesInRoot(ResolveElement(parent, lastEvent.target), c.selector) = { Root } )
      => LET made == { j \in CallsOfPair(c.eventType, c.selector) :
                         calls[j].handler = c.handler }
         IN /\ Cardinality(made) = 1
            /\ \A j \in made : calls[j].target = Root

\* C38: the key delegate stores a registration under reads: the event type,
\* then a ':', then the selector, also when the event type contains ':'; a
\* delegate call on an empty registry leaves that key alone in the map.
C38_KeyIsTypeColonSelector ==
  lastOp.name = "delegate" =>
    \E i \in 1..Len(delegatedEvents) :
      LET key == delegatedEvents[i].key
          n   == Len(lastOp.eventType)
      IN /\ delegatedEvents[i].value.id = nextId - 1
         /\ Len(key) = n + 1 + Len(lastOp.selector)
         /\ SubSeq(key, 1, n) = lastOp.eventType
         /\ key[n + 1] = ":"
         /\ SubSeq(key, n + 2, Len(key)) = lastOp.selector
         /\ nextId = 2 => Len(delegatedEvents) = 1

\* C38 witness: a registration whose event type contains ':' was stored.
C38_Witness ==
  /\ lastOp.name = "delegate"
  /\ lastOp.eventType = <<"ui", ":", "input">>
  /\ MapHas(delegatedEvents, <<"ui", ":", "input", ":", "checked">>)

\* C33: after useDelegation was applied a second time to a controller with
\* registrations and disconnect ran, no event invokes a handler (every
\* handler was registered before the second application), and the
\* controller's own disconnect was called exactly once.
C33_SecondUseDelegationThenDisconnect ==
  lastOp.name = "disconnect" =>
    /\ calls = <<>>
    /\ Cardinality({ i \in 1..Len(effects) : effects[i] = OriginalDisconnectCall }) = 1

\* The keys of a map, in insertion order.
KeysInOrder(map) == [i \in 1..Len(map) |-> map[i].key]

\* C36: after every sequence of delegate, undelegate, undelegateAll and
\* dispatches with element targets, the two implementations have the same
\* keys, the same listeners attached, and the last event made the same
\* invocations with the same arguments (and the same errors).
C36_ImplementationsAgree ==
  /\ KeysInOrder(delegatedEvents.fn) = KeysInOrder(delegatedEvents.mixin.entries)
  /\ listeners.fn = listeners.mixin
  /\ calls.fn = calls.mixin
  /\ thrown.fn = thrown.mixin

\* C36 witness: after undelegateAll left listeners attached in both, an
\* event invoked a handler in both.
C36_Witness ==
  /\ Dispatched
  /\ lastOp.name = "undelegateAll"
  /\ listeners.mixin # <<>>
  /\ calls.mixin # <<>>

\* The invocations an event would make whose closures belong to the controller.
InvocationsOf(controller, lists, type, d) ==
  LET made == TwoDispatchEvent(parent, lists, [type |-> type, at |-> d[1], target |-> d[2]])
  IN SelectSeq(made, LAMBDA call : call.this = controller)

\* C32: delegate, undelegate, undelegateAll and disconnect of one controller
\* leave the other controller's registry and the listeners of its element
\* unchanged, and every event invokes the other's handlers as before.
C32_ControllersIndependent ==
  [][ (lastEvent' = NoEvent /\ parent' = parent) =>
        \A other \in Controllers \ { lastOp'.controller } :
          /\ delegatedEvents'[other] = delegatedEvents[other]
          /\ listeners'[ElementOf(other)] = listeners[ElementOf(other)]
          /\ \A e \in EventTypes, d \in TwoDispatchInputs :
               InvocationsOf(other, listeners', e, d) = InvocationsOf(other, listeners, e, d) ]_vars

\* C32 witness: after c1 tore its registry down, an event from inside the
\* button, which lies inside c1's root, invoked a handler of c2.
C32_Witness ==
  /\ lastOp.controller = "c1"
  /\ lastOp.name \in { "undelegateAll", "disconnect" }
  /\ effects # <<>>
  /\ parent["btn"] = "card"
  /\ Dispatched
  /\ \E j \in 1..Len(calls) : calls[j].this = "c2"

\* ------------------------------------------------------------- properties (5)
HandlersInvoked(invocations) == { invocations[j].handler : j \in 1..Len(invocations) }

\* The handlers that call an operation of the controller.
Redelegating == { "h4" }
TearingDown == { "h5" }

\* C37: a dispatch (with a match, without one, without a usable target, or
\* with a handler that throws) in which no invoked handler calls a registry
\* operation leaves the registry's entries and the attached listeners as
\* they were.
C37_DispatchLeavesRegistry ==
  [][ (lastEvent' # NoEvent /\ HandlersInvoked(calls') \subseteq { "h1", "h2" })
        => RegistryUnchanged ]_vars

\* C37 witness: a dispatch invoked a handler that threw and none that calls
\* the controller, with a registration of such a handler in place.
C37_Witness ==
  /\ Dispatched
  /\ thrown # <<>>
  /\ HandlersInvoked(calls) \subseteq { "h1", "h2" }
  /\ \E c \in AttachedClosures : c.handler \in Redelegating \cup TearingDown

\* C34: when a handler calls delegate for its own (eventType, selector)
\* during a dispatch, no listener attached during the dispatch is invoked for
\* the event in progress, and afterwards exactly one listener for the pair is
\* attached, the one the registry tracks.
C34_RedelegateDuringDispatch ==
  [][ ( /\ lastEvent' # NoEvent
        /\ HandlersInvoked(calls') \cap Redelegating # {}
        /\ HandlersInvoked(calls') \cap TearingDown = {} )
        => /\ \A j \in 1..Len(calls') : calls'[j].listener.id < nextId
           /\ \A j \in 1..Len(calls') :
                calls'[j].handler \in Redelegating =>
                  LET e == calls'[j].listener.eventType
                      s == calls'[j].listener.selector
                      of == { i \in 1..Len(listeners') :
                                /\ listeners'[i].callback.eventType = e
                                /\ listeners'[i].callback.selector = s }
                  IN /\ Cardinality(of) = 1
                     /\ \A i \in of :
                          /\ listeners'[i].type = e
                          /\ MapGet(delegatedEvents', Key(e, s)) = listeners'[i].callback ]_vars

\* C35: when a handler calls undelegateAll or disconnect during a dispatch
\* (h5 calls disconnect, which calls undelegateAll), no handler of a listener that had not yet fired is invoked afterwards, and
\* at the end the registry is empty and no listener is attached.
C35_TeardownDuringDispatch ==
  [][ (lastEvent' # NoEvent /\ HandlersInvoked(calls') \cap TearingDown # {})
        => /\ \A j \in 1..Len(calls') :
                calls'[j].handler \in TearingDown => j = Len(calls')
           /\ delegatedEvents' = EmptyMap
           /\ listeners' = <<>> ]_vars

====
